---- MODULE Spec2Model ----
(***************************************************************************)
(* FiLiP: the vocabulary configurator (filip/semantics/                    *)
(* vocabulary_configurator.py) as a state machine.                         *)
(*                                                                         *)
(* A call site holds a reference to a Vocabulary object on the heap and    *)
(* calls add_ontology_to_vocabulary_as_string / _as_file.  One call is a   *)
(* sequence of steps: the Source is built, every source of the caller's    *)
(* vocabulary is re-parsed into a new Vocabulary, the new source is        *)
(* parsed, post-processing runs, the new Vocabulary is returned.           *)
(*                                                                         *)
(* RdfParser, post_process_vocabulary, Vocabulary and Source are imported  *)
(* by the configurator but are not part of the sources at hand: they are   *)
(* modelled from the specification document (sections 3, 4.1, 4.2).        *)
(***************************************************************************)
EXTENDS Integers, Sequences, FiniteSets, TLC

(***************************************************************************)
(* Bounds of the model.                                                    *)
(***************************************************************************)
\* calls one call site makes
MaxCalls == 3
\* user settings a caller assigns on the vocabularies it holds
MaxEdits == 1

\* The assignments tried on one Notification.
MaxAssignments == 2

(***************************************************************************)
(* Texts.  A text is a sequence of tokens: the line break "\n" is a token  *)
(* of its own, every other token is the characters of one statement.      *)
(***************************************************************************)
NL == "\n"

AnimalClass   == ":Animal a owl:Class ."
DogClass      == ":Dog a owl:Class ."
DogSubAnimal  == ":Dog rdfs:subClassOf :Animal ."
AnimalSubDog  == ":Animal rdfs:subClassOf :Dog ."
DogIndividual == ":Dog a owl:NamedIndividual ."
Garbage       == ":Dog a a a"

\* The statements of the supported serialization: what each well-formed
\* statement token declares (its subject, the subject's type, the
\* superclasses it asserts).
Statement ==
  (AnimalClass   :> [id |-> "Animal", type |-> "Class", parents |-> {}]) @@
  (DogClass      :> [id |-> "Dog", type |-> "Class", parents |-> {}]) @@
  (DogSubAnimal  :> [id |-> "Dog", type |-> "Class", parents |-> {"Animal"}]) @@
  (AnimalSubDog  :> [id |-> "Animal", type |-> "Class", parents |-> {"Dog"}]) @@
  (DogIndividual :> [id |-> "Dog", type |-> "Individual", parents |-> {}])

\* The texts callers pass as source_content.
Texts ==
  { <<AnimalClass>>,
    <<DogClass, NL, DogSubAnimal>>,
    <<AnimalSubDog>>,
    <<DogIndividual, NL>>,
    <<Garbage>> }

\* The names callers pass as source_name (sequences of characters).
Names == { <<"a">>, <<"b">> }

\* The file system: the files that exist, by path (a sequence of
\* characters), with their text as stored.
FileSystem ==
  (<<"d", "/", "c", ".", "t">> :> <<AnimalClass, NL>>) @@
  (<<"b", ".", "v", ".", "t">> :> <<DogClass, NL, DogSubAnimal, NL>>)

\* A file that exists and that the process may not read.
Unreadable == { <<"d", "/", "u", ".", "t">> }

\* The paths callers pass as path_to_file; the last one names no file.
Paths ==
  (DOMAIN FileSystem) \cup Unreadable \cup { <<"d", "/", "x", ".", "t">> }

\* The settings a user assigns to an element; DefaultLabel is the setting
\* of an element nobody has touched.
DefaultLabel == "default"
UserLabels == { "S" }

(***************************************************************************)
(* Source and Vocabulary (specification, section 3).                       *)
(***************************************************************************)
Source(source_name, content, timestamp) ==
  [source_name |-> source_name, content |-> content, timestamp |-> timestamp]

\* Vocabulary(): no sources, no elements.  sources is the mapping
\* source_name -> Source in its insertion order; elements maps an
\* identifier to its record.
NoElements == [i \in {} |-> {}]

EmptyVocabulary == [sources |-> <<>>, elements |-> NoElements]

\* dict.__setitem__ on the sources mapping: an existing key keeps its
\* position and gets the new value, a new key goes last.
DictSet(sources, source) ==
  LET at == { i \in 1..Len(sources) :
                sources[i].source_name = source.source_name }
  IN IF at = {}
     THEN Append(sources, source)
     ELSE LET k == CHOOSE i \in at : TRUE
          IN SubSeq(sources, 1, k - 1) \o <<source>> \o
             SubSeq(sources, k + 1, Len(sources))

SourceNames(v) == { v.sources[i].source_name : i \in 1..Len(v.sources) }

Ids(v) == DOMAIN v.elements

\* What a caller compares of two vocabularies' elements: the identifiers
\* with their types and their raw and derived facts.
Facts(v) ==
  [i \in Ids(v) |-> [type |-> v.elements[i].type,
                     parents |-> v.elements[i].parents,
                     ancestors |-> v.elements[i].ancestors]]

\* The user settings of a vocabulary.
Settings(v) == [i \in Ids(v) |-> v.elements[i].label]

(***************************************************************************)
(* RdfParser.parse_source_into_vocabulary (specification, section 4.1).    *)
(***************************************************************************)
NoError == "none"

\* The statement tokens of a text: line breaks separate statements.
Tokens(content) ==
  { content[i] : i \in { j \in 1..Len(content) : content[j] # NL } }

WellFormed(content) == Tokens(content) \subseteq DOMAIN Statement

Statements(content) == { Statement[t] : t \in Tokens(content) }

\* The identifiers a text declares.
Declared(content) ==
  IF WellFormed(content) THEN { s.id : s \in Statements(content) } ELSE {}

\* Incompatible facts about one identifier: two types for it.
Conflict(content, v) ==
  \E s \in Statements(content) :
     \/ s.id \in Ids(v) /\ v.elements[s.id].type # s.type
     \/ \E t \in Statements(content) : t.id = s.id /\ t.type # s.type

\* The elements after the text's statements are merged in: a new
\* identifier gets a record with default settings, a known one gets the
\* additional facts (union).
Merge(content, v) ==
  [i \in Ids(v) \cup Declared(content) |->
     LET said == { s \in Statements(content) : s.id = i }
         more == UNION { s.parents : s \in said }
     IN IF i \in Ids(v)
        THEN [v.elements[i] EXCEPT !.parents = @ \cup more]
        ELSE [type |-> (CHOOSE s \in said : TRUE).type,
              parents |-> more,
              ancestors |-> {},
              label |-> DefaultLabel]]

\* parse_source_into_vocabulary(source, vocabulary): the error it raises
\* (NoError when it returns) and the vocabulary afterwards.
ParseSource(source, v) ==
  IF ~WellFormed(source.content)
  THEN [exc |-> "ParseError(syntax)", v |-> v]
  ELSE IF Conflict(source.content, v)
  THEN [exc |-> "ParseError(conflict)", v |-> v]
  ELSE [exc |-> NoError,
        v |-> [sources |-> DictSet(v.sources, source),
               elements |-> Merge(source.content, v)]]

(***************************************************************************)
(* post_process_vocabulary (specification, section 4.2).                   *)
(***************************************************************************)
\* The superclasses reachable from the identifiers in `from`.
RECURSIVE Closure(_, _)
Closure(v, from) ==
  LET next == from \cup UNION { v.elements[i].parents : i \in from \cap Ids(v) }
  IN IF next = from THEN from ELSE Closure(v, next)

Ancestors(v, i) == Closure(v, v.elements[i].parents)

\* post_process_vocabulary(vocabulary, old_vocabulary): the error it raises
\* and `vocabulary` afterwards; old_vocabulary is only read.
PostProcess(v, old) ==
  IF \E i \in Ids(v) : i \in Ancestors(v, i)
  THEN [exc |-> "ProcessingError", v |-> v]
  ELSE [exc |-> NoError,
        v |-> [v EXCEPT !.elements =
                 [i \in Ids(v) |->
                    [v.elements[i] EXCEPT
                       !.ancestors = Ancestors(v, i),
                       !.label = IF i \in Ids(old)
                                 THEN old.elements[i].label
                                 ELSE DefaultLabel]]]]

(***************************************************************************)
(* VocabularyConfigurator: the pieces of its code.                         *)
(***************************************************************************)
\* str.replace(old, ''): every occurrence of `old` removed.
Replace(text, old) == SelectSeq(text, LAMBDA c : c # old)

\* os.path.basename(path): what follows the last "/".
Basename(path) ==
  LET at == { i \in 1..Len(path) : path[i] = "/" }
  IN IF at = {} THEN path
     ELSE SubSeq(path, (CHOOSE i \in at : \A j \in at : j <= i) + 1, Len(path))

\* name.split(".")[0]: what precedes the first ".".
SplitFirst(name) ==
  LET at == { i \in 1..Len(name) : name[i] = "." }
  IN IF at = {} THEN name
     ELSE SubSeq(name, 1, (CHOOSE i \in at : \A j \in at : i <= j) - 1)

\* file.read().replace('\n', '')
ReadData(path) == Replace(FileSystem[path], NL)

\* os.path.basename(path_to_file).split(".")[0]
Filename(path) == SplitFirst(Basename(path))

\* An exception as the caller sees it: its type, the value it carries and
\* the exception that was being handled when it was raised (__context__).
NoException == [type |-> NoError, value |-> NoError, context |-> NoError]

\* An exception raised outside the try block reaches the caller as it is.
Propagate(error) == [type |-> error, value |-> NoError, context |-> NoError]

\* `except Exception: raise ParsingException`: the class is instantiated
\* without arguments, and ParsingException.__init__(self, value) requires
\* one, so the instantiation raises TypeError while `error` is handled.
ExceptHandler(error) ==
  [type |-> "TypeError", value |-> NoError, context |-> error]

\* A slip: the old sources iterated last to first.
RECURSIVE Reversed(_)
Reversed(seq) ==
  IF seq = <<>> THEN <<>> ELSE Append(Reversed(Tail(seq)), Head(seq))

SourcesReversed(vocabulary) == Reversed(vocabulary.sources)

\* A slip: the old sources are not re-parsed.
SourcesNone(vocabulary) == <<>>

\* `for source in vocabulary.sources.values()`: the sources re-parsed, in
\* the order of the mapping.
SourcesToReparse(vocabulary) == vocabulary.sources

\* A slip: the vocabulary under construction starts as a copy of the
\* caller's vocabulary.
NewVocabularyCopy(vocabulary) == vocabulary

\* `new_vocabulary = Vocabulary()`: the vocabulary under construction
\* starts empty, whatever the caller's vocabulary holds.
NewVocabulary(vocabulary) == EmptyVocabulary

\* The call as a function of its arguments: the exception it raises
\* (NoException when it returns) and the vocabulary it returns.
RECURSIVE ParseAll(_, _, _)
ParseAll(sources, k, v) ==
  IF k > Len(sources) THEN [exc |-> NoError, v |-> v]
  ELSE LET r == ParseSource(sources[k], v)
       IN IF r.exc # NoError THEN r ELSE ParseAll(sources, k + 1, r.v)

Failed(exc) == [exc |-> exc, result |-> EmptyVocabulary]

ParseSourcesIntoVocabulary(vocabulary, sources) ==
  LET old == ParseAll(SourcesToReparse(vocabulary), 1,
                      NewVocabulary(vocabulary))
  IN IF old.exc # NoError THEN Failed(Propagate(old.exc))
     ELSE LET new == ParseAll(sources, 1, old.v)
          IN IF new.exc # NoError THEN Failed(ExceptHandler(new.exc))
             ELSE LET post == PostProcess(new.v, vocabulary)
                  IN IF post.exc # NoError
                     THEN Failed(ExceptHandler(post.exc))
                     ELSE [exc |-> NoException, result |-> post.v]

add_ontology_to_vocabulary_as_string(vocabulary, source_name, source_content, now) ==
  ParseSourcesIntoVocabulary(
    vocabulary, <<Source(source_name, source_content, now)>>)

\* The error open() raises on a path it cannot open.
IOError(path_to_file) ==
  IF path_to_file \in Unreadable THEN "PermissionError"
  ELSE "FileNotFoundError"

\* A slip: the file opened inside the try block of the parsing.
OpenErrorWrapped(path_to_file) == ExceptHandler(IOError(path_to_file))

\* `with open(path_to_file, 'r') as file:` on a path that names no file
\* or a file that may not be read: the error open() raises is handled
\* nowhere in the module.
OpenError(path_to_file) == Propagate(IOError(path_to_file))

add_ontology_to_vocabulary_as_file(vocabulary, path_to_file, now) ==
  IF path_to_file \notin DOMAIN FileSystem
  THEN Failed(OpenError(path_to_file))
  ELSE ParseSourcesIntoVocabulary(
         vocabulary,
         <<Source(Filename(path_to_file), ReadData(path_to_file), now)>>)

(***************************************************************************)
(* Notification (models/ngsi_v2/subscriptions.py): a pydantic model whose  *)
(* fields are validated at construction and at every assignment.           *)
(***************************************************************************)
None == "None"

\* The fields that have validators or are read by one, in the order of
\* their declaration.
Fields == <<"http", "httpCustom", "mqtt", "mqttCustom", "attrs", "exceptAttrs">>

FieldNames == { Fields[i] : i \in 1..Len(Fields) }

\* The values a caller gives the fields: None or a valid value of the type.
Kwargs ==
  [http : {None, "Http"}, httpCustom : {None, "HttpCustom"},
   mqtt : {None, "Mqtt"}, mqttCustom : {None, "MqttCustom"},
   attrs : {None, "[]", "['temperature']"},
   exceptAttrs : {None, "[]", "['temperature']"}]

FieldValues(name) == { kwargs[name] : kwargs \in Kwargs }

\* `all((v is None for k, v in values.items() if k in keys))`
AllNone(values, keys) ==
  \A k \in keys \cap DOMAIN values : values[k] = None

\* @validator('httpCustom'): TRUE when the assertion passes.
validate_http(http_custom, values) ==
  http_custom # None => values["http"] = None

\* @validator('exceptAttrs')
validate_attr(except_attrs, values) ==
  except_attrs # None => values["attrs"] = None

\* A slip: the branch for mqtt left out of the chain.
validate_endpoints_no_mqtt(values) ==
  IF values["http"] # None
  THEN AllNone(values, {"httpCustom", "mqtt", "mqttCustom"})
  ELSE IF values["httpCustom"] # None
  THEN AllNone(values, {"http", "mqtt", "mqttCustom"})
  ELSE AllNone(values, {"http", "httpCustom"})

\* @root_validator validate_endpoints
validate_endpoints(values) ==
  IF values["http"] # None
  THEN AllNone(values, {"httpCustom", "mqtt", "mqttCustom"})
  ELSE IF values["httpCustom"] # None
  THEN AllNone(values, {"http", "mqtt", "mqttCustom"})
  ELSE IF values["mqtt"] # None
  THEN AllNone(values, {"http", "httpCustom", "mqttCustom"})
  ELSE AllNone(values, {"http", "httpCustom", "mqtt"})

\* The validators of one field, given the fields in `values`.
FieldValidators(name, value, values) ==
  CASE name = "httpCustom" -> validate_http(value, values)
    [] name = "exceptAttrs" -> validate_attr(value, values)
    [] OTHER -> TRUE

\* Construction validates the fields in their order, each against the
\* fields validated before it; a field that fails is left out of `values`.
RECURSIVE ValidateFields(_, _, _, _)
ValidateFields(kwargs, i, values, errors) ==
  IF i > Len(Fields) THEN [values |-> values, errors |-> errors]
  ELSE LET name == Fields[i]
       IN IF FieldValidators(name, kwargs[name], values)
          THEN ValidateFields(kwargs, i + 1,
                              (name :> kwargs[name]) @@ values, errors)
          ELSE ValidateFields(kwargs, i + 1, values, errors \cup {name})

\* Notification(**kwargs): the root validator runs after the fields,
\* whether or not one of them failed; any error is a ValidationError.
Notification(kwargs) ==
  LET f == ValidateFields(kwargs, 1, [n \in {} |-> None], {})
      errors == f.errors \cup
                (IF validate_endpoints(f.values) THEN {} ELSE {"__root__"})
  IN [raised |-> errors # {},
      fields |-> IF errors = {} THEN [n \in FieldNames |-> f.values[n]]
                 ELSE [n \in FieldNames |-> None]]

\* Config.validate_assignment = True: `self.name = value` validates the
\* value against the other fields as they are, then runs the root
\* validator on the fields with the new value; the object changes only
\* when neither raised.
setattr(self, name, value) ==
  LET others == [n \in FieldNames \ {name} |-> self[n]]
      new_values == [self EXCEPT ![name] = value]
      ok == /\ FieldValidators(name, value, others)
            /\ validate_endpoints(new_values)
  IN [raised |-> ~ok, fields |-> IF ok THEN new_values ELSE self]

NoNotification == [constructed |-> FALSE, fields |-> [n \in FieldNames |-> None]]

NoAttempt ==
  [op |-> "none", name |-> None, value |-> None, raised |-> FALSE,
   before |-> NoNotification.fields]

(***************************************************************************)
(* Client (core/client.py): the master client and its sub clients.         *)
(***************************************************************************)
\* Session objects by reference; NoSession stands for None.
NoSession == 0

\* The session the caller passes in.
ExternalSession == 1

\* The `auth` entry of the configuration.
AuthTypes == { "basicauth", "digestauth" }

\* BaseClient.__init__(session=..., reuse_session=...): the client keeps
\* the session it is given, creates one when told to reuse sessions and
\* has none otherwise.
BaseClientSession(session, reuse_session, fresh) ==
  IF session # NoSession THEN session
  ELSE IF reuse_session THEN fresh ELSE NoSession

\* `self.config['auth']`: the config setter stores a Settings object
\* whatever it is given, and a pydantic model cannot be subscripted.
ConfigItem(config_auth, key) == "TypeError"

NoClient ==
  [pc |-> "none", auth |-> None, session_arg |-> NoSession,
   reuse_session |-> FALSE, session |-> NoSession, cb |-> NoSession,
   iota |-> NoSession, timeseries |-> NoSession, exc |-> NoError]

(***************************************************************************)
(* The state.                                                              *)
(***************************************************************************)
VARIABLES
  heap,    \* the Vocabulary objects alive, by reference
  held,    \* held[p]: the vocabulary call site p holds (a reference)
  pc,      \* pc[p]: where site p's call stands
  frame,   \* frame[p]: the arguments and locals of site p's call
  trace,   \* trace[p]: the collaborator calls site p's call has made
  hist,    \* hist[p]: the calls site p has completed, with their outcome
  clock,   \* datetime.now()
  edits,   \* the settings users have assigned so far
  budget,  \* budget[p]: the number of calls site p makes
  notification,  \* the Notification object a caller works on
  attempt,       \* the last construction or assignment tried on it
  assignments,   \* the number of assignments tried
  client         \* the master Client under construction

\* The variables of the vocabulary configurator and those of the models.
cvars == <<heap, held, pc, frame, trace, hist, clock, edits, budget>>

mvars == <<notification, attempt, assignments, client>>

vars == <<cvars, mvars>>

Sites == {1, 2}

NoRef == -1

NoSource == Source(<<>>, <<>>, -1)

NoInput == [kind |-> "none", source_name |-> <<>>, content |-> <<>>,
            path |-> <<>>, now |-> -1]

NoFrame ==
  [input |-> NoInput, vocabulary |-> NoRef, sources |-> <<>>,
   new_vocabulary |-> NoRef, it |-> 0, jt |-> 0,
   snapshot |-> EmptyVocabulary, exc |-> NoException]

\* A slip: the vocabulary under construction kept in one place that all
\* calls share.
AllocShared(h) == 0

\* A reference no live object has.
Alloc(h) == CHOOSE r \in 0..Cardinality(DOMAIN h) : r \notin DOMAIN h

Free(h, refs) == [r \in (DOMAIN h) \ refs |-> h[r]]

\* The objects the sites other than p refer to.
ReferencedByOthers(p) ==
  UNION { {held[q], frame[q].vocabulary, frame[q].new_vocabulary} :
          q \in Sites \ {p} }

\* No Notification and no Client has been made.
NoObjects ==
  /\ notification = NoNotification
  /\ attempt = NoAttempt
  /\ assignments = 0
  /\ client = NoClient

\* create_vocabulary(): every site starts from a fresh, empty vocabulary.
Init ==
  /\ heap = [r \in Sites |-> EmptyVocabulary]
  /\ held = [p \in Sites |-> p]
  /\ pc = [p \in Sites |-> "idle"]
  /\ frame = [p \in Sites |-> NoFrame]
  /\ trace = [p \in Sites |-> <<>>]
  /\ hist = [p \in Sites |-> <<>>]
  /\ clock = 0
  /\ edits = 0
  /\ budget = [p \in Sites |-> IF p = 1 THEN MaxCalls ELSE 0]
  /\ NoObjects

(***************************************************************************)
(* __parse_sources_into_vocabulary, step by step.                          *)
(***************************************************************************)
\* A slip: the parser is handed the caller's vocabulary.
ParseTargetCaller(f) == f.vocabulary

\* The vocabulary the parser is handed (`vocabulary=new_vocabulary`).
ParseTarget(f) == f.new_vocabulary

\* The reference post-processing is handed as old_vocabulary.
OldVocabularyArg(f) == f.vocabulary

\* A slip: post-processing placed before the loop over the new sources.
NextPcPostFirst(at, moreOld, moreNew) ==
  CASE at \in {"enter", "parse_old"} ->
         IF moreOld THEN "parse_old" ELSE "post_process"
    [] at = "post_process" -> IF moreNew THEN "parse_new" ELSE "return"
    [] at = "parse_new" -> IF moreNew THEN "parse_new" ELSE "return"

\* The statement reached after the step `at`, given whether the loop over
\* the old sources and the loop over the new ones have sources left.
NextPc(at, moreOld, moreNew) ==
  CASE at \in {"enter", "parse_old"} ->
         IF moreOld THEN "parse_old"
         ELSE IF moreNew THEN "parse_new" ELSE "post_process"
    [] at = "parse_new" -> IF moreNew THEN "parse_new" ELSE "post_process"
    [] at = "post_process" -> "return"

Event(op, source, vocabulary, old_vocabulary) ==
  [op |-> op, source |-> source, vocabulary |-> vocabulary,
   old_vocabulary |-> old_vocabulary]

Outcome(f, exc, result) ==
  [input |-> f.input, vocabulary |-> f.snapshot, sources |-> f.sources,
   exc |-> exc, result |-> result]

\* The call ends with an exception.
Raise(p, f, exc) ==
  /\ pc' = [pc EXCEPT ![p] = "raised"]
  /\ frame' = [frame EXCEPT ![p] = [f EXCEPT !.exc = exc]]
  /\ hist' = [hist EXCEPT ![p] = Append(@, Outcome(f, exc, EmptyVocabulary))]

\* Lines 48-49: new_vocabulary = Vocabulary(); parser = RdfParser().
Enter(p, input, sources) ==
  LET r == Alloc(heap)
      v == heap[held[p]]
  IN /\ heap' = (r :> NewVocabulary(v)) @@ heap
     /\ frame' = [frame EXCEPT ![p] =
                    [NoFrame EXCEPT !.input = input,
                                    !.vocabulary = held[p],
                                    !.sources = sources,
                                    !.new_vocabulary = r,
                                    !.snapshot = v]]
     /\ pc' = [pc EXCEPT ![p] =
                 NextPc("enter", Len(SourcesToReparse(v)) > 0,
                        Len(sources) > 0)]
     /\ trace' = [trace EXCEPT ![p] = <<>>]

\* add_ontology_to_vocabulary_as_string(vocabulary, source_name,
\* source_content) up to the first loop.
CallString(p, source_name, source_content) ==
  /\ pc[p] = "idle"
  /\ Len(hist[p]) < budget[p]
  /\ Enter(p, [kind |-> "string", source_name |-> source_name,
               content |-> source_content, path |-> <<>>, now |-> clock],
           <<Source(source_name, source_content, clock)>>)
  /\ clock' = clock + 1
  /\ UNCHANGED <<held, hist, edits, budget, mvars>>

\* add_ontology_to_vocabulary_as_file(vocabulary, path_to_file) up to the
\* first loop; open() raises when it cannot open the file.
CallFile(p, path_to_file) ==
  /\ pc[p] = "idle"
  /\ Len(hist[p]) < budget[p]
  /\ LET input == [kind |-> "file", source_name |-> <<>>, content |-> <<>>,
                   path |-> path_to_file, now |-> clock]
     IN IF path_to_file \notin DOMAIN FileSystem
        THEN /\ Raise(p, [NoFrame EXCEPT !.input = input,
                                         !.vocabulary = held[p],
                                         !.snapshot = heap[held[p]]],
                      OpenError(path_to_file))
             /\ trace' = [trace EXCEPT ![p] = <<>>]
             /\ UNCHANGED <<heap, clock>>
        ELSE /\ Enter(p, input,
                      <<Source(Filename(path_to_file),
                               ReadData(path_to_file), clock)>>)
             /\ clock' = clock + 1
             /\ UNCHANGED hist
  /\ UNCHANGED <<held, edits, budget, mvars>>

\* Lines 50-52: one iteration of the loop over vocabulary.sources.values();
\* it is outside the try block.
ParseOld(p) ==
  /\ pc[p] = "parse_old"
  /\ LET f == frame[p]
         old == SourcesToReparse(heap[f.vocabulary])
         source == old[f.it + 1]
         target == ParseTarget(f)
         r == ParseSource(source, heap[target])
     IN /\ trace' = [trace EXCEPT ![p] =
                       Append(@, Event("parse", source, target, NoRef))]
        /\ IF r.exc = NoError
           THEN /\ heap' = [heap EXCEPT ![target] = r.v]
                /\ frame' = [frame EXCEPT ![p].it = @ + 1]
                /\ pc' = [pc EXCEPT ![p] =
                            NextPc("parse_old", f.it + 1 < Len(old),
                                   f.jt < Len(f.sources))]
                /\ UNCHANGED hist
           ELSE /\ Raise(p, f, Propagate(r.exc))
                /\ UNCHANGED heap
  /\ UNCHANGED <<held, clock, edits, budget, mvars>>

\* Lines 56-58: one iteration of the loop over the new sources, inside the
\* try block.
ParseNew(p) ==
  /\ pc[p] = "parse_new"
  /\ LET f == frame[p]
         source == f.sources[f.jt + 1]
         target == ParseTarget(f)
         r == ParseSource(source, heap[target])
     IN /\ trace' = [trace EXCEPT ![p] =
                       Append(@, Event("parse", source, target, NoRef))]
        /\ IF r.exc = NoError
           THEN /\ heap' = [heap EXCEPT ![target] = r.v]
                /\ frame' = [frame EXCEPT ![p].jt = @ + 1]
                /\ pc' = [pc EXCEPT ![p] =
                            NextPc("parse_new", FALSE,
                                   f.jt + 1 < Len(f.sources))]
                /\ UNCHANGED hist
           ELSE /\ Raise(p, f, ExceptHandler(r.exc))
                /\ UNCHANGED heap
  /\ UNCHANGED <<held, clock, edits, budget, mvars>>

\* Lines 59-60: post_process_vocabulary(vocabulary=new_vocabulary,
\* old_vocabulary=vocabulary), inside the try block.
PostProcessStep(p) ==
  /\ pc[p] = "post_process"
  /\ LET f == frame[p]
         old == OldVocabularyArg(f)
         r == PostProcess(heap[f.new_vocabulary], heap[old])
     IN /\ trace' = [trace EXCEPT ![p] =
                       Append(@, Event("post_process", NoSource,
                                       f.new_vocabulary, old))]
        /\ IF r.exc = NoError
           THEN /\ heap' = [heap EXCEPT ![f.new_vocabulary] = r.v]
                /\ pc' = [pc EXCEPT ![p] =
                            NextPc("post_process", FALSE,
                                   f.jt < Len(f.sources))]
                /\ UNCHANGED <<frame, hist>>
           ELSE /\ Raise(p, f, ExceptHandler(r.exc))
                /\ UNCHANGED heap
  /\ UNCHANGED <<held, clock, edits, budget, mvars>>

\* Line 64: return new_vocabulary.
Return(p) ==
  /\ pc[p] = "return"
  /\ pc' = [pc EXCEPT ![p] = "returned"]
  /\ hist' = [hist EXCEPT ![p] =
                Append(@, Outcome(frame[p], NoException,
                                  heap[frame[p].new_vocabulary]))]
  /\ UNCHANGED <<heap, held, frame, trace, clock, edits, budget, mvars>>

(***************************************************************************)
(* The caller.                                                             *)
(***************************************************************************)
\* The caller replaces its reference by the vocabulary returned; the prior
\* vocabulary is discarded.
Adopt(p) ==
  /\ pc[p] = "returned"
  /\ held' = [held EXCEPT ![p] = frame[p].new_vocabulary]
  /\ heap' = Free(heap, {frame[p].vocabulary} \
                         ({frame[p].new_vocabulary} \cup ReferencedByOthers(p)))
  /\ pc' = [pc EXCEPT ![p] = "idle"]
  /\ frame' = [frame EXCEPT ![p] = NoFrame]
  /\ trace' = [trace EXCEPT ![p] = <<>>]
  /\ UNCHANGED <<hist, clock, edits, budget, mvars>>

\* The caller handles the exception and keeps its vocabulary; the
\* vocabulary under construction is garbage.
Recover(p) ==
  /\ pc[p] = "raised"
  /\ heap' = Free(heap, {frame[p].new_vocabulary} \
                         ({frame[p].vocabulary} \cup ReferencedByOthers(p)))
  /\ pc' = [pc EXCEPT ![p] = "idle"]
  /\ frame' = [frame EXCEPT ![p] = NoFrame]
  /\ trace' = [trace EXCEPT ![p] = <<>>]
  /\ UNCHANGED <<held, hist, clock, edits, budget, mvars>>

\* A user assigns a setting to an element of the vocabulary the site holds.
AssignSetting(p, i, label) ==
  /\ pc[p] = "idle"
  /\ edits < MaxEdits
  /\ budget[p] > 0
  /\ i \in Ids(heap[held[p]])
  /\ heap' = [heap EXCEPT ![held[p]].elements[i].label = label]
  /\ edits' = edits + 1
  /\ UNCHANGED <<held, pc, frame, trace, hist, clock, budget, mvars>>

Next ==
  \E p \in Sites :
    \/ \E n \in Names, t \in Texts : CallString(p, n, t)
    \/ \E path \in Paths : CallFile(p, path)
    \/ ParseOld(p)
    \/ ParseNew(p)
    \/ PostProcessStep(p)
    \/ Return(p)
    \/ Adopt(p)
    \/ Recover(p)
    \/ \E i \in {"Animal", "Dog"}, l \in UserLabels : AssignSetting(p, i, l)

Spec == Init /\ [][Next]_vars

\* Two sites that each hold a vocabulary of their own, made by an earlier
\* call or just created, and each make one call; the calls may overlap.
Seeds ==
  { <<>>,
    <<Source(<<"a">>, <<AnimalClass>>, 0)>>,
    <<Source(<<"b">>, <<DogClass, NL, DogSubAnimal>>, 0)>> }

Made(seed, now) ==
  IF seed = <<>> THEN EmptyVocabulary
  ELSE add_ontology_to_vocabulary_as_string(
         EmptyVocabulary, seed[1].source_name, seed[1].content, now).result

InitConcurrent ==
  /\ heap \in { [p \in Sites |-> Made(seed[p], p - 1)] :
                 seed \in [Sites -> Seeds] }
  /\ held = [p \in Sites |-> p]
  /\ pc = [p \in Sites |-> "idle"]
  /\ frame = [p \in Sites |-> NoFrame]
  /\ trace = [p \in Sites |-> <<>>]
  /\ hist = [p \in Sites |-> <<>>]
  /\ clock = Cardinality(Sites)
  /\ edits = 0
  /\ budget = [p \in Sites |-> 1]
  /\ NoObjects

SpecConcurrent == InitConcurrent /\ [][Next]_vars

(***************************************************************************)
(* The models' operations.                                                 *)
(***************************************************************************)
\* Notification(**kwargs): the object exists only if validation passed.
Construct(kwargs) ==
  /\ ~notification.constructed
  /\ LET r == Notification(kwargs)
     IN /\ notification' = [constructed |-> ~r.raised, fields |-> r.fields]
        /\ attempt' = [NoAttempt EXCEPT !.op = "construct",
                                        !.raised = r.raised]
  /\ UNCHANGED <<assignments, client, cvars>>

\* notification.name = value
Assign(name, value) ==
  /\ notification.constructed
  /\ assignments < MaxAssignments
  /\ LET r == setattr(notification.fields, name, value)
     IN /\ notification' = [notification EXCEPT !.fields = r.fields]
        /\ attempt' = [op |-> "assign", name |-> name, value |-> value,
                       raised |-> r.raised, before |-> notification.fields]
  /\ assignments' = assignments + 1
  /\ UNCHANGED <<client, cvars>>

\* Client.__init__, lines 51-59: the config is stored and BaseClient
\* sets the master's session.
ClientInit(auth, session, reuse_session) ==
  /\ client.pc = "none"
  /\ client' = [NoClient EXCEPT
                  !.pc = "base", !.auth = auth, !.session_arg = session,
                  !.reuse_session = reuse_session,
                  !.session = BaseClientSession(session, reuse_session,
                                                ExternalSession + 1)]
  /\ UNCHANGED <<notification, attempt, assignments, cvars>>

\* Lines 62-75: the sub clients are made with session=self.session.
ClientSubClients ==
  /\ client.pc = "base"
  /\ client' = [client EXCEPT
                  !.pc = "sub",
                  !.cb = BaseClientSession(client.session, FALSE, NoSession),
                  !.iota = BaseClientSession(client.session, FALSE, NoSession),
                  !.timeseries =
                     BaseClientSession(client.session, FALSE, NoSession)]
  /\ UNCHANGED <<notification, attempt, assignments, cvars>>

\* Lines 78-92: with an `auth` entry in the config the first statement of
\* the branch subscripts the config and raises; without one the secrets
\* are initialised and the constructor returns.
ClientAuth ==
  /\ client.pc = "sub"
  /\ client' = IF client.auth # None
               THEN [client EXCEPT !.pc = "raised",
                                   !.exc = ConfigItem(client.auth, "auth")]
               ELSE [client EXCEPT !.pc = "constructed"]
  /\ UNCHANGED <<notification, attempt, assignments, cvars>>

NextObjects ==
  \/ \E kwargs \in Kwargs : Construct(kwargs)
  \/ \E name \in FieldNames : \E value \in FieldValues(name) :
       Assign(name, value)
  \/ \E auth \in AuthTypes \cup {None} :
       \E session \in {NoSession, ExternalSession} :
         \E reuse_session \in BOOLEAN :
           ClientInit(auth, session, reuse_session)
  \/ ClientSubClients
  \/ ClientAuth

SpecObjects == Init /\ [][NextObjects]_vars

\* Every completed call ended as the function of its arguments says.
StepsMatchFunction ==
  \A p \in Sites : \A k \in 1..Len(hist[p]) :
    LET h == hist[p][k]
        r == IF h.input.kind = "string"
             THEN add_ontology_to_vocabulary_as_string(
                    h.vocabulary, h.input.source_name, h.input.content,
                    h.input.now)
             ELSE add_ontology_to_vocabulary_as_file(
                    h.vocabulary, h.input.path, h.input.now)
    IN h.exc = r.exc /\ h.result = r.result

(***************************************************************************)
(* The claims.                                                             *)
(***************************************************************************)
Active(p) == pc[p] # "idle"

Ended(p) == pc[p] \in {"returned", "raised"}

\* The collaborator calls a call makes when nothing fails: every source of
\* the caller's vocabulary as it was at the call, in the order of its
\* mapping, then the new sources, then post-processing.
ExpectedTrace(f) ==
  [k \in 1..Len(f.snapshot.sources) |->
     Event("parse", f.snapshot.sources[k], f.new_vocabulary, NoRef)]
  \o [k \in 1..Len(f.sources) |->
        Event("parse", f.sources[k], f.new_vocabulary, NoRef)]
  \o <<Event("post_process", NoSource, f.new_vocabulary, f.vocabulary)>>

IsPrefix(s, t) == Len(s) <= Len(t) /\ SubSeq(t, 1, Len(s)) = s

PostEvents(t) == { k \in 1..Len(t) : t[k].op = "post_process" }

\* C1: after every call of add_ontology_to_vocabulary_as_string, returned
\* or raised, the vocabulary passed in equals its pre-call snapshot
\* (sources, elements, settings), so its source count is unchanged after a
\* call that fails on malformed content.
C1_ArgumentUnchanged ==
  \A p \in Sites :
    (Ended(p) /\ frame[p].input.kind = "string") =>
       /\ heap[frame[p].vocabulary] = frame[p].snapshot
       /\ Len(heap[frame[p].vocabulary].sources)
            = Len(frame[p].snapshot.sources)

\* A call on a vocabulary that holds a source fails on malformed content,
\* after an earlier call on the same site returned a grown vocabulary.
C1_Witness ==
  \E p \in Sites :
    /\ pc[p] = "raised"
    /\ frame[p].input.kind = "string"
    /\ ~WellFormed(frame[p].input.content)
    /\ Len(frame[p].snapshot.sources) > 0
    /\ \E k \in 1..Len(hist[p]) :
         /\ hist[p][k].input.kind = "string"
         /\ hist[p][k].exc = NoException
         /\ hist[p][k].result # hist[p][k].vocabulary

\* C2: when re-parsing an old source, parsing the new source or
\* post-processing fails, the caller observes a ParsingException that
\* carries the original cause, and nothing else.
C2_SingleParsingException ==
  \A p \in Sites :
    (pc[p] = "raised" /\ trace[p] # <<>>) =>
       /\ frame[p].exc.type = "ParsingException"
       /\ NoError \notin {frame[p].exc.value, frame[p].exc.context}

\* C3: in one call, every source of the caller's vocabulary is parsed in
\* the order of its mapping into one brand-new empty vocabulary, then the
\* new source is parsed into the same vocabulary, then post-processing is
\* invoked on it with the caller's vocabulary as old_vocabulary; the call
\* returns only after that.
C3_StepOrder ==
  \A p \in Sites :
    Active(p) =>
      LET f == frame[p]
      IN /\ IsPrefix(trace[p], ExpectedTrace(f))
         /\ f.new_vocabulary # NoRef =>
              /\ f.new_vocabulary # f.vocabulary
              /\ \A q \in Sites : held[q] # f.new_vocabulary
              /\ trace[p] = <<>> => heap[f.new_vocabulary] = EmptyVocabulary
         /\ pc[p] \in {"return", "returned"} => trace[p] = ExpectedTrace(f)

\* A call on a vocabulary with two sources has returned.
C3_Witness ==
  \E p \in Sites :
    /\ pc[p] = "returned"
    /\ Len(frame[p].snapshot.sources) = 2
    /\ Len(trace[p]) = 4

\* C4: post-processing runs at most once in a call and exactly once in a
\* call that returns; when it runs, all old and new sources have been
\* parsed, and nothing is parsed after it.
C4_PostProcessOnceAtEnd ==
  \A p \in Sites :
    Active(p) =>
      LET f == frame[p]
          t == trace[p]
      IN /\ Cardinality(PostEvents(t)) <= 1
         /\ \A k \in PostEvents(t) :
              /\ k = Len(t)
              /\ k = Len(f.snapshot.sources) + Len(f.sources) + 1
              /\ \A j \in 1..(k - 1) : t[j].op = "parse"
         /\ pc[p] \in {"return", "returned"} => Cardinality(PostEvents(t)) = 1
         /\ pc[p] \in {"parse_old", "parse_new"} => PostEvents(t) = {}

\* A call that re-parsed an old source and parsed a new one has returned.
C4_Witness ==
  \E p \in Sites :
    /\ pc[p] = "returned"
    /\ Len(frame[p].snapshot.sources) > 0
    /\ PostEvents(trace[p]) = {Len(trace[p])}

\* The completed calls of site p that returned.
Returned(p) == { k \in 1..Len(hist[p]) : hist[p][k].exc = NoException }

\* The source a completed call added.
Added(h) == h.sources[1]

DeclaredBySources(sources) ==
  UNION { Declared(sources[i].content) : i \in 1..Len(sources) }

\* The vocabulary rebuilt from the prior sources other than the one the
\* call names, plus the new source.
OthersThenNew(h) ==
  LET others == SelectSeq(h.vocabulary.sources,
                          LAMBDA s : s.source_name # Added(h).source_name)
      parsed == ParseAll(others \o h.sources, 1, EmptyVocabulary)
  IN PostProcess(parsed.v, h.vocabulary).v

\* C5: adding a source under a name the vocabulary already has updates
\* that source: the result has exactly one source of that name, with the
\* new content, and its elements are those of the other prior sources plus
\* the new content.
C5_UpdateReplacesContent ==
  \A p \in Sites : \A k \in Returned(p) :
    LET h == hist[p][k]
        same == { i \in 1..Len(h.result.sources) :
                    h.result.sources[i].source_name = Added(h).source_name }
    IN Added(h).source_name \in SourceNames(h.vocabulary) =>
         /\ Cardinality(same) = 1
         /\ \A i \in same : h.result.sources[i].content = Added(h).content
         /\ Facts(h.result) = Facts(OthersThenNew(h))

\* C6: when a source's content is replaced and no source of the result
\* declares an identifier that had a user setting in the prior vocabulary,
\* the result does not contain that identifier.
C6_DropOnRemoval ==
  \A p \in Sites : \A k \in Returned(p) :
    LET h == hist[p][k]
    IN Added(h).source_name \in SourceNames(h.vocabulary) =>
         \A e \in Ids(h.vocabulary) :
           ( /\ h.vocabulary.elements[e].label \in UserLabels
             /\ e \notin DeclaredBySources(h.result.sources) )
           => e \notin Ids(h.result)

\* C7: adding the same content under the same name a second time, on the
\* vocabulary the first call returned, gives the same source names,
\* elements and settings as the first call.
C7_Idempotent ==
  \A p \in Sites : \A k \in Returned(p) :
    (k + 1 \in Returned(p)) =>
      LET first == hist[p][k]
          second == hist[p][k + 1]
      IN ( /\ second.vocabulary = first.result
           /\ Added(second).source_name = Added(first).source_name
           /\ Added(second).content = Added(first).content )
         => /\ SourceNames(second.result) = SourceNames(first.result)
            /\ Facts(second.result) = Facts(first.result)
            /\ Settings(second.result) = Settings(first.result)

\* Two consecutive returned calls of a site, the second on the result of
\* the first, adding sources of different names that declare disjoint
\* identifiers.
DisjointPair(p, k) ==
  /\ k \in Returned(p)
  /\ k + 1 \in Returned(p)
  /\ hist[p][k + 1].vocabulary = hist[p][k].result
  /\ Added(hist[p][k]).source_name # Added(hist[p][k + 1]).source_name
  /\ Declared(Added(hist[p][k]).content)
       \cap Declared(Added(hist[p][k + 1]).content) = {}

\* The same two sources added to the same vocabulary in the other order.
OtherOrder(p, k) ==
  LET first == ParseSourcesIntoVocabulary(hist[p][k].vocabulary,
                                          hist[p][k + 1].sources)
  IN IF first.exc # NoException THEN first
     ELSE ParseSourcesIntoVocabulary(first.result, hist[p][k].sources)

\* Both orders return, with the same source names, elements and derived
\* facts.
SameBothOrders(p, k) ==
  LET ab == hist[p][k + 1].result
      ba == OtherOrder(p, k)
  IN /\ ba.exc = NoException
     /\ SourceNames(ba.result) = SourceNames(ab)
     /\ Facts(ba.result) = Facts(ab)

\* Neither source of the pair replaces a source of the vocabulary the
\* first call was given.
BothNew(p, k) ==
  {Added(hist[p][k]).source_name, Added(hist[p][k + 1]).source_name}
    \cap SourceNames(hist[p][k].vocabulary) = {}

\* C8, as claimed: for two sources of different names that declare
\* disjoint identifiers, adding A then B gives the same elements and
\* derived facts as adding B then A.
C8_OrderIndependent ==
  \A p \in Sites : \A k \in 1..Len(hist[p]) :
    DisjointPair(p, k) => SameBothOrders(p, k)

\* C8, amended: the same, for two sources neither of which has the name of
\* a source the vocabulary already holds.
C8_OrderIndependentNewNames ==
  \A p \in Sites : \A k \in 1..Len(hist[p]) :
    (DisjointPair(p, k) /\ BothNew(p, k)) => SameBothOrders(p, k)

\* Two such sources were added to a vocabulary that held a source, and an
\* element of the second has a superclass that the first declares.
C8_Witness ==
  \E p \in Sites : \E k \in 1..Len(hist[p]) :
    /\ DisjointPair(p, k)
    /\ BothNew(p, k)
    /\ Len(hist[p][k].vocabulary.sources) > 0
    /\ \E e \in Declared(Added(hist[p][k + 1]).content) :
         hist[p][k + 1].result.elements[e].ancestors
           \cap Declared(Added(hist[p][k]).content) # {}

\* C9: when a new source that does not declare element E is added, E is in
\* the result with the setting it had; an element the prior vocabulary
\* did not have has the default setting.
C9_CarryForward ==
  \A p \in Sites : \A k \in Returned(p) :
    LET h == hist[p][k]
    IN Added(h).source_name \notin SourceNames(h.vocabulary) =>
         /\ \A e \in Ids(h.vocabulary) \ Declared(Added(h).content) :
              /\ e \in Ids(h.result)
              /\ h.result.elements[e].label = h.vocabulary.elements[e].label
         /\ \A e \in Ids(h.result) \ Ids(h.vocabulary) :
              h.result.elements[e].label = DefaultLabel

\* The file's name without its (last) extension.
Stem(path) ==
  LET name == Basename(path)
      at == { i \in 1..Len(name) : name[i] = "." }
  IN IF at = {} THEN name
     ELSE SubSeq(name, 1, (CHOOSE i \in at : \A j \in at : j <= i) - 1)

\* C10: a call of add_ontology_to_vocabulary_as_file ends as the call of
\* add_ontology_to_vocabulary_as_string with the file's name without its
\* extension and the file's text as stored.
C10_FileAsString ==
  \A p \in Sites : \A k \in 1..Len(hist[p]) :
    LET h == hist[p][k]
    IN (h.input.kind = "file" /\ h.input.path \in DOMAIN FileSystem) =>
         LET r == add_ontology_to_vocabulary_as_string(
                    h.vocabulary, Stem(h.input.path),
                    FileSystem[h.input.path], h.input.now)
         IN h.exc = r.exc /\ h.result = r.result

\* The calls in progress or just ended whose file could not be opened.
OpenFailed(p) ==
  /\ Active(p)
  /\ frame[p].input.kind = "file"
  /\ frame[p].input.path \notin DOMAIN FileSystem

\* C11: when the file given to add_ontology_to_vocabulary_as_file cannot be
\* opened, the caller receives the I/O error itself, raised while no other
\* exception was being handled, and at that point the call has parsed no
\* source, old or new, has run no post-processing and has left the
\* caller's vocabulary as it was.
C11_IOErrorDirect ==
  \A p \in Sites :
    OpenFailed(p) =>
      /\ pc[p] = "raised"
      /\ frame[p].exc.type = IOError(frame[p].input.path)
      /\ frame[p].exc.context = NoError
      /\ trace[p] = <<>>
      /\ heap[held[p]] = frame[p].snapshot
      /\ hist[p][Len(hist[p])].exc = frame[p].exc

\* A call on a vocabulary that has sources to re-parse ended with the
\* error of open() on a file that may not be read.
C11_Witness ==
  \E p \in Sites :
    /\ OpenFailed(p)
    /\ frame[p].input.path \in Unreadable
    /\ pc[p] = "raised"
    /\ Len(SourcesToReparse(heap[held[p]])) > 0

\* The contents of a vocabulary's sources, by source name.
Contents(v) ==
  { [source_name |-> v.sources[i].source_name,
     content |-> v.sources[i].content] : i \in 1..Len(v.sources) }

\* The completed calls that reached __parse_sources_into_vocabulary.
Parsed(p) == { k \in 1..Len(hist[p]) : Len(hist[p][k].sources) > 0 }

\* Two calls given equal prior source contents, equal new source content
\* and equal prior user settings.
SameInputs(h, g) ==
  /\ Contents(h.vocabulary) = Contents(g.vocabulary)
  /\ Settings(h.vocabulary) = Settings(g.vocabulary)
  /\ Added(h).source_name = Added(g).source_name
  /\ Added(h).content = Added(g).content

\* Two vocabularies equal but for the timestamps of their sources.
SameButTimestamps(v, w) ==
  /\ Contents(v) = Contents(w)
  /\ Facts(v) = Facts(w)
  /\ Settings(v) = Settings(w)

\* What the claim names as the inputs of a call, and nothing else of the
\* prior vocabulary: its sources' names and contents in their order, and
\* its elements' settings.
InputsOnly(v) ==
  [sources |-> [i \in 1..Len(v.sources) |->
                  Source(v.sources[i].source_name, v.sources[i].content, 0)],
   elements |-> [i \in Ids(v) |->
                   [type |-> NoError, parents |-> {}, ancestors |-> {},
                    label |-> v.elements[i].label]]]

\* The call site p has just completed, when it has.
Last(p) == hist[p][Len(hist[p])]

JustEnded(p) == Ended(p) /\ Len(Last(p).sources) > 0

\* C12 as stated: two add_ontology calls given equal prior source contents,
\* equal new source content and equal prior user settings end alike and
\* return equal vocabularies, whenever and after whatever they are made.
\* (Every completed call is compared, when it ends, with every call
\* completed before it.)
C12_Deterministic ==
  \A p \in Sites : JustEnded(p) =>
    \A q \in Sites : \A j \in Parsed(q) :
      SameInputs(Last(p), hist[q][j]) =>
        /\ Last(p).exc = hist[q][j].exc
        /\ Last(p).result = hist[q][j].result

\* C12 amended: two such calls end alike and return vocabularies that are
\* equal but for the timestamps of their sources (the new Source carries
\* the time of its call); and every call ends and returns, timestamps
\* apart, as computed from the prior sources' names and contents, the new
\* source's name and content and the prior settings alone.
C12_DeterministicButTimestamps ==
  \A p \in Sites : JustEnded(p) =>
    /\ \A q \in Sites : \A j \in Parsed(q) :
         SameInputs(Last(p), hist[q][j]) =>
           /\ Last(p).exc = hist[q][j].exc
           /\ SameButTimestamps(Last(p).result, hist[q][j].result)
    /\ LET h == Last(p)
           r == add_ontology_to_vocabulary_as_string(
                  InputsOnly(h.vocabulary), Added(h).source_name,
                  Added(h).content, 0)
       IN h.exc = r.exc /\ SameButTimestamps(h.result, r.result)

\* Two calls with equal inputs returned at different times, the prior
\* vocabulary holding elements with facts and a setting a user assigned.
C12_Witness ==
  \E p \in Sites : \E k \in Returned(p), j \in Returned(p) :
    /\ k < j
    /\ SameInputs(hist[p][k], hist[p][j])
    /\ hist[p][k].input.now # hist[p][j].input.now
    /\ \E i \in Ids(hist[p][k].vocabulary) :
         /\ hist[p][k].vocabulary.elements[i].label \in UserLabels
         /\ hist[p][k].vocabulary.elements[i].ancestors # {}

\* What a completed call would have raised and returned had it run alone
\* on the vocabulary it was given.
Alone(h) ==
  IF h.input.kind = "string"
  THEN add_ontology_to_vocabulary_as_string(
         h.vocabulary, h.input.source_name, h.input.content, h.input.now)
  ELSE add_ontology_to_vocabulary_as_file(
         h.vocabulary, h.input.path, h.input.now)

\* C13: two add_ontology calls that run concurrently, each on a Vocabulary
\* of its own, do not interfere: however their steps interleave, each call
\* ends as it would have ended alone and returns the vocabulary it would
\* have returned alone, and the vocabulary it was given stays as it was.
C13_NoInterference ==
  \A p \in Sites :
    /\ \A k \in 1..Len(hist[p]) :
         /\ hist[p][k].exc = Alone(hist[p][k]).exc
         /\ hist[p][k].result = Alone(hist[p][k]).result
    /\ Active(p) => heap[frame[p].vocabulary] = frame[p].snapshot

\* One call has returned while the other, which began earlier on a
\* vocabulary with sources, is still parsing.
C13_Witness ==
  \E p \in Sites, q \in Sites :
    /\ pc[p] = "returned"
    /\ pc[q] \in {"parse_old", "parse_new", "post_process"}
    /\ frame[q].input.now < frame[p].input.now
    /\ Len(trace[q]) > 0
    /\ Len(frame[p].snapshot.sources) > 0
    /\ Len(frame[q].snapshot.sources) > 0

\* The calls of site p up to the k-th all returned: a sequence of
\* successful calls that starts at create_vocabulary().
AllReturned(p, k) == \A j \in 1..k : j \in Returned(p)

\* The scenario's two steps.
ScenarioA(h) ==
  /\ h.vocabulary = EmptyVocabulary
  /\ Added(h).source_name = <<"a">>
  /\ Added(h).content = <<AnimalClass>>

ScenarioB(h) ==
  /\ Contents(h.vocabulary) =
       { [source_name |-> <<"a">>, content |-> <<AnimalClass>>] }
  /\ Ids(h.vocabulary) = {"Animal"}
  /\ Added(h).source_name = <<"b">>
  /\ Added(h).content = <<DogClass, NL, DogSubAnimal>>

Classes(v) == { i \in Ids(v) : v.elements[i].type = "Class" }

\* C16: after a sequence of successful add_ontology calls that starts at
\* create_vocabulary(), the source names of the vocabulary returned are
\* exactly the names added, its elements are exactly the identifiers its
\* sources declare and the closures are computed over all of them; adding
\* "a" that declares :Animal gives the sources {"a"} and one class, and
\* then adding "b" that declares :Dog a subclass of :Animal gives two
\* sources, two classes and :Animal in the closure of :Dog.
C16_SourcesAndElements ==
  \A p \in Sites : \A k \in 1..Len(hist[p]) :
    LET h == hist[p][k]
        v == h.result
    IN (budget[p] = MaxCalls /\ AllReturned(p, k)) =>
         /\ SourceNames(v) = { Added(hist[p][j]).source_name : j \in 1..k }
         /\ Ids(v) = DeclaredBySources(v.sources)
         /\ \A i \in Ids(v) : v.elements[i].ancestors = Ancestors(v, i)
         /\ ScenarioA(h) =>
              /\ SourceNames(v) = { <<"a">> }
              /\ Classes(v) = {"Animal"} /\ Ids(v) = {"Animal"}
         /\ ScenarioB(h) =>
              /\ SourceNames(v) = { <<"a">>, <<"b">> }
              /\ Classes(v) = {"Animal", "Dog"} /\ Ids(v) = {"Animal", "Dog"}
              /\ "Animal" \in v.elements["Dog"].ancestors

EndpointFields == {"http", "httpCustom", "mqtt", "mqttCustom"}

Endpoints(fields) == { n \in EndpointFields : fields[n] # None }

\* An assignment that would set a second endpoint.
SecondEndpoint(a) ==
  /\ a.op = "assign"
  /\ a.name \in EndpointFields
  /\ a.value # None
  /\ Endpoints(a.before) \ {a.name} # {}

\* C14: a Notification never holds more than one of the delivery endpoints
\* http, httpCustom, mqtt and mqttCustom, after every successful
\* construction and every successful assignment; an attempt that would
\* set a second endpoint is rejected and leaves the object as it was.
C14_OneEndpoint ==
  /\ notification.constructed =>
       Cardinality(Endpoints(notification.fields)) <= 1
  /\ SecondEndpoint(attempt) =>
       attempt.raised /\ notification.fields = attempt.before
  /\ (attempt.op = "construct" /\ attempt.raised) =>
       ~notification.constructed

\* With mqtt set, the assignment of mqttCustom was rejected.
C14_Witness ==
  /\ notification.constructed
  /\ SecondEndpoint(attempt)
  /\ attempt.name = "mqttCustom"
  /\ notification.fields["mqtt"] # None
  /\ attempt.raised

\* C17: a Notification never has both attrs and exceptAttrs set, after
\* every successful construction and every successful sequence of
\* assignments, in either order of assigning the two fields.
C17_AttrsExclusive ==
  notification.constructed =>
    ~(notification.fields["attrs"] # None /\
      notification.fields["exceptAttrs"] # None)

\* C15: constructing a master Client ends with a client whose sub clients
\* cb, iota and timeseries all use the session object the master uses,
\* also when the configuration requests basic or digest authentication.
C15_SharedSession ==
  client.pc \in {"constructed", "raised"} =>
    /\ client.pc = "constructed"
    /\ client.cb = client.session
    /\ client.iota = client.session
    /\ client.timeseries = client.session

====
